---- MODULE Spec2Model ----
(***************************************************************************)
(* The KHQR payment reconciliation engine of the Telegram store bot        *)
(* (src/controllers/khqrPayment.js) together with the parts of the         *)
(* persistence layer it shares with the rest of the bot: the users table   *)
(* (balance), the transactions table (ledger), the single SQLite           *)
(* connection with its BEGIN/COMMIT/ROLLBACK, and User.updateBalance.      *)
(*                                                                         *)
(* Node.js runs one callback at a time: every action below is the code     *)
(* that runs between two awaits of one async function (or one timer        *)
(* callback up to its first await).  An `await x()` is split in two: the   *)
(* action that issues it ends there, and the action that resumes applies   *)
(* x's effect and outcome and runs on to the next await.                   *)
(*                                                                         *)
(* The gateway issues a fresh md5 for every QR it creates; the model       *)
(* names the md5 of the n-th generateQR call n, so Hashes also index the   *)
(* poll loops (setInterval handles) and expiry timers (setTimeout).        *)
(***************************************************************************)
EXTENDS Integers, Sequences, FiniteSets, Bags, TLC

\* ------------------------------------------------------------------ bounds
MaxEvents == 2       \* events of the environment: requests made (generateQR,
                     \* updateBalance) and failures of a collaborator
                     \* (Telegram, SQLite, the gateway)
MaxInFlight == 2     \* async calls and callbacks suspended at an await at once
maxChecks == 2       \* khqrPayment.js:291 has 600; scaled down

\* ------------------------------------------------------------------ inputs
\* Money is counted in cents.
Owners == {1, 2}
InitUsers == (1 :> 1)                 \* users rows at start: telegram_id :> balance
Hashes == 1..MaxEvents
NaN == -1000                          \* parseFloat of a non-numeric text
Amounts == {NaN, -1, 0, 1, 2, 4}      \* what a caller may pass as amount
Prices == {1}                         \* account.price / admin amounts
DefaultMin == 2                       \* 0.01 (amounts are in units of 0.005)
DefaultMax == 200000                  \* 1000
DefaultBakongId == 9                  \* 'chhunlichhean_kun@wing'
DefaultMerchantName == 8              \* 'CHHEANSMM'
MaxTopupLimit == 2000000              \* validateSetting: 10000
SettingAmounts == {NaN, 0, 1, 2, 3, 4}   \* values an admin may submit for a limit
SettingTexts == {0, 1, 2}             \* ... and for a merchant parameter (0: '')
Buyers == {1, 2}                      \* users who may confirm a purchase
BuyerBalances == (1 :> 2) @@ (2 :> 1) \* their balances at start
AccountPrice == 1                     \* account.price
MaxFlows == 2                         \* purchase confirmations handled

VARIABLES
    reply,            \* the last status check: md5, the gateway's answer, the result
    clock,            \* wall-clock time, and one top-up seen against it
    shop,             \* the account on sale: its purchases and deliveries
    transactions,     \* the transactions table with the md5 the gateway gave
    panel,            \* the last POST /api/settings/update: key, value, the
                      \* answer, and the settings before it
    settings,         \* settingsManager.getCurrentSettings(): the top-up
                      \* limits and the merchant parameters
    cleanupInterval,  \* the handle of the cleanup service ("set"), or "null"
    paymentCheckers,  \* Map userId -> PaymentRequest (0: none, h: the one of md5 h)
    activeIntervals,  \* Map userId -> interval handle (0: none, h: loop of md5 h)
    processedMd5,     \* Set of settled md5
    calls,            \* generateQR invocations, calls[h] got md5 h
    loops,            \* per md5: the setInterval of autoCheckTransaction
    ticks,            \* per md5: bag of interval callbacks suspended at an await
    timers,           \* per md5: the setTimeout of deleteQRAfterTimeout
    timerQueue,       \* the armed timeouts, in the order they were armed
    paid,             \* gateway: md5 of the QRs the customer has paid
    qr,               \* Telegram: the QR photo message of each request
    balance,          \* users.balance by telegram_id; DOMAIN: the rows
    ledger,           \* transactions rows by md5_hash: sequence of statuses
    txn,              \* the connection's open transaction, with its snapshot
    upd,              \* User.updateBalance invocations
    faults,           \* failures injected so far, by collaborator
    rejects,          \* generateQR calls answered with a rejection message
    history           \* per md5: guard acquisitions and balance credits so far,
                      \* and the request it superseded; the events allowed
                      \* beyond MaxEvents

vars == <<reply, clock, shop, transactions, panel, settings, cleanupInterval, paymentCheckers, activeIntervals, processedMd5, calls, loops,
          ticks, timers, timerQueue, paid, qr, balance, ledger, txn, upd, faults, rejects,
          history>>

\* ----------------------------------------------------------------- helpers
Owner(h) == calls[h].owner
Amount(h) == calls[h].amount

NFaults == faults.notif + faults.db + faults.gw
Stops == IF cleanupInterval = "null" THEN 1 ELSE 0
Events == Len(calls) + Len(upd) + Len(rejects) + NFaults + Stops
CanRequest == Events < MaxEvents + history.extra
CanFail == Events < MaxEvents + history.extra
Fail(kind) == [faults EXCEPT ![kind] = @ + 1]

NoTxn == [active |-> FALSE, balance |-> <<>>, ledger |-> <<>>]

Tick(pc, cap) == [pc |-> pc, cap |-> cap]
InFlight(h) == BagCardinality(ticks[h])

\* the async functions and callbacks that are suspended at an await
RECURSIVE SumTicks(_)
SumTicks(S) ==
    IF S = {} THEN 0
    ELSE LET h == CHOOSE x \in S : TRUE IN InFlight(h) + SumTicks(S \ {h})
Pending ==
    Cardinality({h \in DOMAIN calls : calls[h].pc \in {"gateway", "photo", "persist"}})
    + SumTicks(Hashes)
    + Cardinality({h \in Hashes : timers[h].pc \in {"delMsg", "notify"}})
    + Cardinality({i \in DOMAIN upd : upd[i].pc \notin {"done", "failed"}})
CanStart == Pending < MaxInFlight
AddTick(h, t) == [ticks EXCEPT ![h] = @ (+) SetToBag({t})]
DelTick(tk, h, t) == [tk EXCEPT ![h] = @ (-) SetToBag({t})]
MoveTick(h, t, u) == [ticks EXCEPT ![h] = (@ (-) SetToBag({t})) (+) SetToBag({u})]
\* the .env file at startup (SettingsManager's constructor)
Init_settings ==
    [minTopupAmount |-> 2, maxTopupAmount |-> 3,
     khqrBakongId |-> 1, khqrMerchantName |-> 1, khqrBearerToken |-> 1]

\* ----------------------------------------------------------------- initial
\* no status check made yet
ReplyStart == [md5 |-> 0, response |-> [outcome |-> "none"], result |-> [success |-> FALSE]]
\* no top-up issued yet, at time 0 (ms)
ClockStart ==
    [now |-> 0, issuedAt |-> -1, request |-> "none", row |-> "none",
     loop |-> "none", nextTick |-> -1, checkCount |-> 0, lastCheck |-> -1,
     timer |-> "none", due |-> -1]
\* one account, available, no purchase of it yet
ShopStart ==
    [available |-> TRUE, balance |-> BuyerBalances, purchases |-> <<>>,
     debited |-> <<>>, delivered |-> <<>>, flows |-> <<>>]

\* no update asked of the admin panel yet
PanelStart == [key |-> "none", value |-> 0, success |-> FALSE, before |-> Init_settings]
\* an empty transactions table, no request issued, no md5 processed
TableStart == [rows |-> <<>>, requests |-> {}, processedMd5 |-> {}, inserting |-> {}]

\* the state after construction; the environment is allowed extra events
\* beyond MaxEvents
StartWith(env, extra) ==
    /\ reply = ReplyStart
    /\ panel = PanelStart
    /\ clock = ClockStart
    /\ shop = ShopStart
    /\ transactions = TableStart
    /\ settings = env
    /\ cleanupInterval = "set"
    /\ paymentCheckers = [o \in Owners |-> 0]
    /\ activeIntervals = [o \in Owners |-> 0]
    /\ processedMd5 = {}
    /\ calls = <<>>
    /\ loops = [h \in Hashes |-> [st |-> "none", checkCount |-> 0]]
    /\ ticks = [h \in Hashes |-> EmptyBag]
    /\ timers = [h \in Hashes |-> [pc |-> "none", cap |-> 0]]
    /\ timerQueue = <<>>
    /\ paid = {}
    /\ qr = [h \in Hashes |-> "none"]
    /\ balance = InitUsers
    /\ ledger = [h \in Hashes |-> <<>>]
    /\ txn = NoTxn
    /\ upd = <<>>
    /\ faults = [notif |-> 0, db |-> 0, gw |-> 0]
    /\ rejects = <<>>
    /\ history = [settles |-> [h \in Hashes |-> 0], credits |-> [h \in Hashes |-> 0],
                  prev |-> [h \in Hashes |-> 0], extra |-> extra]

Start(extra) == StartWith(Init_settings, extra)

Init == Start(0)

\* ------------------------------------------------------------- generateQR
\* (the settings the controller was constructed with)
loadSettingsOnce ==
    [minTopupAmount |-> 2, maxTopupAmount |-> 3,
     bakongId |-> 1, merchantName |-> 1, bearerToken |-> 1]
\* loadSettings: parseFloat(setting) || default, text || default
loadSettings ==
    [minTopupAmount |-> IF settings.minTopupAmount \in {0, NaN}
                        THEN DefaultMin ELSE settings.minTopupAmount,
     maxTopupAmount |-> IF settings.maxTopupAmount \in {0, NaN}
                        THEN DefaultMax ELSE settings.maxTopupAmount,
     bakongId |-> IF settings.khqrBakongId = 0
                  THEN DefaultBakongId ELSE settings.khqrBakongId,
     merchantName |-> IF settings.khqrMerchantName = 0
                      THEN DefaultMerchantName ELSE settings.khqrMerchantName,
     bearerToken |-> settings.khqrBearerToken]

\* generateQRCode: the parameters of the request to the gateway
GatewayRequest ==
    [bakongid |-> loadSettings.bakongId, merchantname |-> loadSettings.merchantName,
     bearer |-> loadSettings.bearerToken]

\* JavaScript: every comparison with NaN is false; !amount holds of 0 and NaN
IsNaN(a) == a = NaN
Less(a, b) == ~IsNaN(a) /\ ~IsNaN(b) /\ a < b
Falsy(a) == IsNaN(a) \/ a = 0

\* lines 184-202: the three early returns of generateQR
InvalidAmount(a) == Falsy(a) \/ IsNaN(a) \/ Less(a, 0) \/ a = 0
\* (no check of the minimum)
BelowMinUnchecked(a) == FALSE
BelowMin(a) == Less(a, loadSettings.minTopupAmount)
AboveMax(a) == Less(loadSettings.maxTopupAmount, a)
Rejected(a) == InvalidAmount(a) \/ BelowMin(a) \/ AboveMax(a)

\* clearInterval(handle)
clearInterval(lp, h) == IF h = 0 THEN lp ELSE [lp EXCEPT ![h].st = "cleared"]

\* the generateQR calls of owner o that have not returned yet
Running(o) ==
    {g \in DOMAIN calls : calls[g].owner = o /\ calls[g].pc \in {"gateway", "photo", "persist"}}
\* the pending request of o that a generateQR call made now would supersede,
\* every earlier call of o having returned (0: none)
Superseding(o) == IF Running(o) = {} THEN paymentCheckers[o] ELSE 0

\* generateQR up to its first await: a rejection message, or the gateway call
generateQR(o, a) ==
    IF Rejected(a)
    THEN /\ CanRequest
         /\ rejects' = Append(rejects, [owner |-> o, amount |-> a,
                                         pending |-> paymentCheckers[o]])
         /\ UNCHANGED <<reply, clock, shop, transactions, panel, settings, cleanupInterval, paymentCheckers, activeIntervals, processedMd5,
                        calls, loops, ticks, timers, timerQueue, paid, qr, balance, ledger,
                        txn, upd, faults, history>>
    ELSE /\ CanRequest /\ CanStart
         /\ calls' = Append(calls, [owner |-> o, amount |-> a, pc |-> "gateway",
                                     request |-> GatewayRequest])
         /\ history' = [history EXCEPT !.prev[Len(calls) + 1] = Superseding(o)]
         /\ UNCHANGED <<reply, clock, shop, transactions, panel, settings, cleanupInterval, paymentCheckers, activeIntervals, processedMd5,
                        loops, ticks, timers, timerQueue, paid, qr, balance, ledger, txn, upd,
                        faults, rejects>>

\* (a failed createPayment taken for a success)
GatewayFailedIgnored(ok) == FALSE
\* lines 207-217: !qrResult.success, or the QR url or the md5 is missing
GatewayFailed(ok) == ~ok

\* (clearUserPaymentChecker run whatever the gateway answered)
SupersedesAlways(ok) == TRUE
\* line 220: clearUserPaymentChecker is reached when neither return was taken
Supersedes(ok) == ~GatewayFailed(ok)

\* generateQRCode returned.  Failure: a message, return.  Success:
\* clearUserPaymentChecker, then the QR photo is sent.
GatewayReturn(h, ok) ==
    /\ h \in DOMAIN calls /\ calls[h].pc = "gateway"
    /\ IF Supersedes(ok)
       THEN /\ loops' = clearInterval(loops, activeIntervals[Owner(h)])
            /\ activeIntervals' = [activeIntervals EXCEPT ![Owner(h)] = 0]
            /\ paymentCheckers' = [paymentCheckers EXCEPT ![Owner(h)] = 0]
       ELSE UNCHANGED <<loops, activeIntervals, paymentCheckers>>
    /\ IF ~GatewayFailed(ok)
       THEN /\ calls' = [calls EXCEPT ![h].pc = "photo"]
            /\ UNCHANGED faults
       ELSE /\ CanFail
            /\ faults' = Fail("gw")
            /\ calls' = [calls EXCEPT ![h].pc = "gatewayFailed"]
    /\ UNCHANGED <<reply, clock, shop, transactions, panel, settings, cleanupInterval, processedMd5, ticks, timers, timerQueue, paid, qr, balance,
                   ledger, txn, upd, rejects, history>>

\* sendPhoto returned (styled card, else the raw QR url).  Failure of both
\* throws to the catch of generateQR.  Success: paymentCheckers.set, then
\* Transaction.create is issued.
PhotoReturn(h, ok) ==
    /\ h \in DOMAIN calls /\ calls[h].pc = "photo"
    /\ IF ok
       THEN /\ qr' = [qr EXCEPT ![h] = "shown"]
            /\ paymentCheckers' = [paymentCheckers EXCEPT ![Owner(h)] = h]
            /\ calls' = [calls EXCEPT ![h].pc = "persist"]
            /\ UNCHANGED faults
       ELSE /\ CanFail
            /\ faults' = Fail("notif")
            /\ calls' = [calls EXCEPT ![h].pc = "photoFailed"]
            /\ UNCHANGED <<qr, paymentCheckers>>
    /\ UNCHANGED <<reply, clock, shop, transactions, panel, settings, cleanupInterval, activeIntervals, processedMd5, loops, ticks, timers, timerQueue,
                   paid, balance, ledger, txn, upd, rejects, history>>

\* (an INSERT that stores nothing)
TransactionCreateLost(ld, h, status) == ld
\* Transaction.create: INSERT of a pending row; user_id references users
TransactionCreate(ld, h, status) == [ld EXCEPT ![h] = Append(@, status)]
ForeignKeyOk(o) == o \in DOMAIN balance

\* Transaction.create returned (a failure is logged only); then
\* autoCheckTransaction and deleteQRAfterTimeout run, and generateQR returns.
PersistReturn(h, ok) ==
    /\ h \in DOMAIN calls /\ calls[h].pc = "persist"
    /\ IF ok
       THEN /\ ledger' = IF ForeignKeyOk(Owner(h))
                         THEN TransactionCreate(ledger, h, "pending") ELSE ledger
            /\ UNCHANGED faults
       ELSE /\ CanFail
            /\ faults' = Fail("db")
            /\ UNCHANGED ledger
    /\ loops' = [loops EXCEPT ![h] = [st |-> "live", checkCount |-> 0]]
    /\ activeIntervals' = [activeIntervals EXCEPT ![Owner(h)] = h]
    /\ timers' = [timers EXCEPT ![h] = [pc |-> "armed", cap |-> 0]]
    /\ timerQueue' = Append(timerQueue, h)
    /\ calls' = [calls EXCEPT ![h].pc = "done"]
    /\ UNCHANGED <<reply, clock, shop, transactions, panel, settings, cleanupInterval, paymentCheckers, processedMd5, ticks, paid, qr,
                   balance, txn, upd, rejects, history>>

\* ------------------------------------------------- autoCheckTransaction
\* checkCount++
Bump(lp, h) == [lp EXCEPT ![h].checkCount = @ + 1]
\* (a status check that never stops the loop)
BumpAndStopNever(lp, h) == Bump(lp, h)
\* (a status check that stops the loop whatever the count)
BumpAndStopAlways(lp, h) == clearInterval(Bump(lp, h), h)
\* checkCount++; if (checkCount >= maxChecks) clearInterval(checkInterval)
BumpAndStop(lp, h) ==
    IF Bump(lp, h)[h].checkCount >= maxChecks
    THEN clearInterval(Bump(lp, h), h) ELSE Bump(lp, h)
\* ... and activeIntervals.delete(userId) with it
DeleteIfStopped(h) ==
    IF Bump(loops, h)[h].checkCount >= maxChecks
    THEN [activeIntervals EXCEPT ![Owner(h)] = 0] ELSE activeIntervals

\* The interval callback up to `await checkPaymentStatus` (lines 296-313)
IntervalFire(h) ==
    /\ loops[h].st = "live"
    /\ IF paymentCheckers[Owner(h)] = 0 \/ h \in processedMd5
       THEN /\ loops' = clearInterval(loops, h)
            /\ activeIntervals' = [activeIntervals EXCEPT ![Owner(h)] = 0]
            /\ UNCHANGED ticks
       ELSE /\ CanStart
            /\ ticks' = AddTick(h, Tick("check", 0))
            /\ UNCHANGED <<loops, activeIntervals>>
    /\ UNCHANGED <<reply, clock, shop, transactions, panel, settings, cleanupInterval, paymentCheckers, processedMd5, calls, timers, timerQueue, paid,
                   qr, balance, ledger, txn, upd, faults, rejects, history>>

\* The customer pays the QR they were shown
Pay(h) ==
    /\ qr[h] # "none" /\ h \notin paid
    /\ paid' = paid \cup {h}
    /\ UNCHANGED <<reply, clock, shop, transactions, panel, settings, cleanupInterval, paymentCheckers, activeIntervals, processedMd5, calls,
                   loops, ticks, timers, timerQueue, qr, balance, ledger, txn, upd, faults,
                   rejects, history>>

\* (a guard that never reports a settled md5)
AlreadyProcessedNever(h) == FALSE
\* line 321: the double-check of the processed guard
AlreadyProcessed(h) == h \in processedMd5

\* checkPaymentStatus returned (lines 315-324, 381-393).  res is "paid",
\* "unpaid" or "error" ({success: false}).
CheckReturn(h, res) ==
    /\ BagIn(Tick("check", 0), ticks[h])
    /\ \/ /\ res = "paid" /\ h \in paid
          /\ loops' = clearInterval(loops, h)
          /\ activeIntervals' = [activeIntervals EXCEPT ![Owner(h)] = 0]
          /\ IF AlreadyProcessed(h)
             THEN /\ ticks' = DelTick(ticks, h, Tick("check", 0))
                  /\ UNCHANGED processedMd5
             ELSE /\ processedMd5' = processedMd5 \cup {h}
                  /\ ticks' = MoveTick(h, Tick("check", 0), Tick("msg", 0))
          /\ history' = [history EXCEPT
                 !.settles[h] = IF AlreadyProcessed(h) THEN @ ELSE @ + 1]
          /\ UNCHANGED faults
       \/ /\ \/ res = "unpaid" /\ h \notin paid /\ UNCHANGED faults
             \/ res = "error" /\ CanFail /\ faults' = Fail("gw")
          /\ loops' = BumpAndStop(loops, h)
          /\ activeIntervals' = DeleteIfStopped(h)
          /\ ticks' = IF Bump(loops, h)[h].checkCount >= maxChecks
                      THEN MoveTick(h, Tick("check", 0), Tick("expire", 0))
                      ELSE DelTick(ticks, h, Tick("check", 0))
          /\ UNCHANGED <<processedMd5, history>>
    /\ UNCHANGED <<reply, clock, shop, transactions, panel, settings, cleanupInterval, paymentCheckers, calls, timers, timerQueue, paid, qr, balance,
                   ledger, txn, upd, rejects>>

\* The two sendMessage calls (confirmation, then thank-you; lines 332-340)
\* returned.  Nothing else runs in this callback between them, so they are one
\* await here: ok means both were delivered.  A rejection of either is caught
\* by the catch of the callback (lines 394-401).
MessageReturn(h, ok) ==
    /\ BagIn(Tick("msg", 0), ticks[h])
    /\ IF ok
       THEN /\ ticks' = MoveTick(h, Tick("msg", 0), Tick("credit", 0))
            /\ UNCHANGED <<loops, activeIntervals, faults>>
       ELSE /\ CanFail
            /\ faults' = Fail("notif")
            /\ loops' = BumpAndStop(loops, h)
            /\ activeIntervals' = DeleteIfStopped(h)
            /\ ticks' = DelTick(ticks, h, Tick("msg", 0))
    /\ UNCHANGED <<reply, clock, shop, transactions, panel, settings, cleanupInterval, paymentCheckers, processedMd5, calls, timers, timerQueue, paid,
                   qr, balance, ledger, txn, upd, rejects, history>>

\* UPDATE users SET balance = balance + ? WHERE telegram_id = ?
CreditBalance(bal, o, a) == IF o \in DOMAIN bal THEN [bal EXCEPT ![o] = @ + a] ELSE bal

\* the balance UPDATE returned (lines 343-349); the ledger UPDATE is issued
CreditReturn(h, ok) ==
    /\ BagIn(Tick("credit", 0), ticks[h])
    /\ IF ok
       THEN /\ balance' = CreditBalance(balance, Owner(h), Amount(h))
            /\ history' = [history EXCEPT
                   !.credits[h] = IF Owner(h) \in DOMAIN balance THEN @ + 1 ELSE @]
            /\ UNCHANGED faults
       ELSE /\ CanFail
            /\ faults' = Fail("db")
            /\ UNCHANGED <<balance, history>>
    /\ ticks' = MoveTick(h, Tick("credit", 0), Tick("ledger", 0))
    /\ UNCHANGED <<reply, clock, shop, transactions, panel, settings, cleanupInterval, paymentCheckers, activeIntervals, processedMd5, calls,
                   loops, timers, timerQueue, paid, qr, ledger, txn, upd, rejects>>

\* UPDATE transactions SET status = "completed" WHERE md5_hash = ? AND user_id = ?
MarkCompleted(ld, h) == [ld EXCEPT ![h] = [i \in DOMAIN @ |-> "completed"]]
\* UPDATE transactions SET status = "expired" WHERE ... AND status = "pending"
MarkExpired(ld, h) ==
    [ld EXCEPT ![h] = [i \in DOMAIN @ |-> IF @[i] = "pending" THEN "expired" ELSE @[i]]]

\* lines 366-375: the tick goes on to delete the QR message of the request
\* the map holds for the user now, or ends
AfterLedger(h, t) ==
    IF paymentCheckers[Owner(h)] # 0
    THEN MoveTick(h, t, Tick("delMsg", paymentCheckers[Owner(h)]))
    ELSE DelTick(ticks, h, t)

\* (an UPDATE that is always taken to have changed a row)
NoRowChangedNever(ld, h) == FALSE
\* line 355: !result || result.changes === 0
NoRowChanged(ld, h) == Len(ld[h]) = 0

\* the ledger UPDATE returned (lines 352-364)
LedgerReturn(h, ok) ==
    /\ BagIn(Tick("ledger", 0), ticks[h])
    /\ IF ok
       THEN /\ ledger' = MarkCompleted(ledger, h)
            /\ ticks' = IF NoRowChanged(ledger, h)
                        THEN MoveTick(h, Tick("ledger", 0), Tick("insert", 0))
                        ELSE AfterLedger(h, Tick("ledger", 0))
            /\ UNCHANGED faults
       ELSE /\ CanFail
            /\ faults' = Fail("db")
            /\ ticks' = AfterLedger(h, Tick("ledger", 0))
            /\ UNCHANGED ledger
    /\ UNCHANGED <<reply, clock, shop, transactions, panel, settings, cleanupInterval, paymentCheckers, activeIntervals, processedMd5, calls,
                   loops, timers, timerQueue, paid, qr, balance, txn, upd, rejects, history>>

\* the INSERT of a completed row returned (lines 357-360)
InsertReturn(h, ok) ==
    /\ BagIn(Tick("insert", 0), ticks[h])
    /\ IF ok
       THEN /\ ledger' = IF ForeignKeyOk(Owner(h))
                         THEN TransactionCreate(ledger, h, "completed") ELSE ledger
            /\ UNCHANGED faults
       ELSE /\ CanFail
            /\ faults' = Fail("db")
            /\ UNCHANGED ledger
    /\ ticks' = AfterLedger(h, Tick("insert", 0))
    /\ UNCHANGED <<reply, clock, shop, transactions, panel, settings, cleanupInterval, paymentCheckers, activeIntervals, processedMd5, calls,
                   loops, timers, timerQueue, paid, qr, balance, txn, upd, rejects, history>>

\* bot.deleteMessage(userId, message_id)
deleteMessage(q, m) == [q EXCEPT ![m] = "deleted"]

\* deleteMessage returned (errors ignored); paymentCheckers.delete(userId)
DeleteReturn(h, cap, ok) ==
    /\ BagIn(Tick("delMsg", cap), ticks[h])
    /\ IF ok
       THEN qr' = deleteMessage(qr, cap) /\ UNCHANGED faults
       ELSE CanFail /\ faults' = Fail("notif") /\ UNCHANGED qr
    /\ paymentCheckers' = [paymentCheckers EXCEPT ![Owner(h)] = 0]
    /\ ticks' = DelTick(ticks, h, Tick("delMsg", cap))
    /\ UNCHANGED <<reply, clock, shop, transactions, panel, settings, cleanupInterval, activeIntervals, processedMd5, calls, loops, timers, timerQueue,
                   paid, balance, ledger, txn, upd, rejects, history>>

\* the UPDATE to expired, issued at the tick bound, returned (lines 387-392)
ExpireReturn(h, ok) ==
    /\ BagIn(Tick("expire", 0), ticks[h])
    /\ IF ok
       THEN ledger' = MarkExpired(ledger, h) /\ UNCHANGED faults
       ELSE CanFail /\ faults' = Fail("db") /\ UNCHANGED ledger
    /\ ticks' = DelTick(ticks, h, Tick("expire", 0))
    /\ UNCHANGED <<reply, clock, shop, transactions, panel, settings, cleanupInterval, paymentCheckers, activeIntervals, processedMd5, calls,
                   loops, timers, timerQueue, paid, qr, balance, txn, upd, rejects, history>>

\* -------------------------------------------------- deleteQRAfterTimeout
\* The setTimeout callback up to `await deleteMessage` (lines 410-414).
\* All timeouts last ten minutes, so they fire in the order they were armed.
TimeoutFire(h) ==
    /\ timers[h].pc = "armed"
    /\ timerQueue # <<>> /\ h = Head(timerQueue)
    /\ paymentCheckers[Owner(h)] # 0 => CanStart
    /\ timerQueue' = Tail(timerQueue)
    /\ timers' = [timers EXCEPT
                    ![h] = IF paymentCheckers[Owner(h)] # 0
                           THEN [pc |-> "delMsg", cap |-> paymentCheckers[Owner(h)]]
                           ELSE [pc |-> "done", cap |-> 0]]
    /\ UNCHANGED <<reply, clock, shop, transactions, panel, settings, cleanupInterval, paymentCheckers, activeIntervals, processedMd5, calls,
                   loops, ticks, paid, qr, balance, ledger, txn, upd, faults,
                   rejects, history>>

\* deleteMessage returned (a failure is logged); paymentCheckers.delete(userId);
\* the expiry text is sent (lines 415-421)
TimeoutDeleteReturn(h, ok) ==
    /\ timers[h].pc = "delMsg"
    /\ IF ok
       THEN qr' = deleteMessage(qr, timers[h].cap) /\ UNCHANGED faults
       ELSE CanFail /\ faults' = Fail("notif") /\ UNCHANGED qr
    /\ paymentCheckers' = [paymentCheckers EXCEPT ![Owner(h)] = 0]
    /\ timers' = [timers EXCEPT ![h].pc = "notify"]
    /\ UNCHANGED <<reply, clock, shop, transactions, panel, settings, cleanupInterval, activeIntervals, processedMd5, calls, loops, ticks,
                   timerQueue, paid, balance, ledger, txn, upd, rejects, history>>

\* sendMessage of the expiry text returned; nothing catches its rejection
TimeoutNotifyReturn(h, ok) ==
    /\ timers[h].pc = "notify"
    /\ IF ok
       THEN timers' = [timers EXCEPT ![h].pc = "told"] /\ UNCHANGED faults
       ELSE /\ CanFail
            /\ faults' = Fail("notif")
            /\ timers' = [timers EXCEPT ![h].pc = "unhandled"]
    /\ UNCHANGED <<reply, clock, shop, transactions, panel, settings, cleanupInterval, paymentCheckers, activeIntervals, processedMd5, calls,
                   loops, ticks, timerQueue, paid, qr, balance, ledger, txn, upd, rejects,
                   history>>

\* cleanupExpiredTransactions (every minute): drops the requests older than
\* ten minutes.  Time is not modelled: a request may be that old once
\* generateQR has armed its timer, which is after its timestamp was taken.
cleanupExpiredTransactions(o) ==
    /\ cleanupInterval = "set"
    /\ paymentCheckers[o] # 0
    /\ timers[paymentCheckers[o]].pc # "none"
    /\ paymentCheckers' = [paymentCheckers EXCEPT ![o] = 0]
    /\ UNCHANGED <<reply, clock, shop, transactions, panel, settings, cleanupInterval, activeIntervals, processedMd5, calls, loops, ticks,
                   timers, timerQueue, paid, qr, balance, ledger, txn, upd, faults, rejects,
                   history>>

\* ------------------------------------------------------------------- stop
\* the loops whose handles activeIntervals holds
Registry == {activeIntervals[o] : o \in Owners} \ {0}
\* stop(): the cleanup service and the registered intervals are cleared, both
\* maps emptied.  (The model stops once.)
stop ==
    /\ cleanupInterval = "set" /\ CanRequest
    /\ cleanupInterval' = "null"
    /\ loops' = [h \in Hashes |->
                    IF h \in Registry THEN [loops[h] EXCEPT !.st = "cleared"]
                    ELSE loops[h]]
    /\ activeIntervals' = [o \in Owners |-> 0]
    /\ paymentCheckers' = [o \in Owners |-> 0]
    /\ UNCHANGED <<reply, clock, shop, transactions, panel, settings, processedMd5, calls, ticks, timers, timerQueue, paid,
                   qr, balance, ledger, txn, upd, faults, rejects, history>>

\* process.on('unhandledRejection'): the rejection nothing caught in the
\* expiry callback of md5 h starts gracefulShutdown, whose telegramBot.stop()
\* calls stop() of the payment controller before its first await
gracefulShutdown(h) ==
    /\ timers[h].pc = "unhandled"
    /\ timers' = [timers EXCEPT ![h].pc = "shutdown"]
    /\ cleanupInterval' = "null"
    /\ loops' = [g \in Hashes |->
                    IF g \in Registry THEN [loops[g] EXCEPT !.st = "cleared"]
                    ELSE loops[g]]
    /\ activeIntervals' = [o \in Owners |-> 0]
    /\ paymentCheckers' = [o \in Owners |-> 0]
    /\ UNCHANGED <<reply, clock, shop, transactions, panel, settings, processedMd5, calls, ticks, timerQueue, paid,
                   qr, balance, ledger, txn, upd, faults, rejects, history>>

\* ---------------------------------------------------------- updateSetting
\* keyMapping and getCurrentSettings: the setting a key of the admin panel names
SettingKeys == {"minTopup", "maxTopup", "bakongId", "merchantName", "bearerToken"}
SettingOf(key) ==
    CASE key = "minTopup" -> "minTopupAmount"
      [] key = "maxTopup" -> "maxTopupAmount"
      [] key = "bakongId" -> "khqrBakongId"
      [] key = "merchantName" -> "khqrMerchantName"
      [] key = "bearerToken" -> "khqrBearerToken"

\* (validateSetting without its cross-check of the two limits)
validateSettingNoCross(key, value) ==
    CASE key \in {"bakongId", "merchantName", "bearerToken"} -> value # 0
      [] key = "minTopup" -> ~IsNaN(value) /\ value > 0 /\ value >= DefaultMin
      [] key = "maxTopup" -> ~IsNaN(value) /\ value > 0 /\ value <= MaxTopupLimit

\* validateSetting, which the route runs before updateSetting
validateSetting(key, value) ==
    CASE key \in {"bakongId", "merchantName", "bearerToken"} -> value # 0
      [] key = "minTopup" ->
            /\ ~IsNaN(value) /\ value > 0 /\ value >= DefaultMin
            /\ value < settings.maxTopupAmount
      [] key = "maxTopup" ->
            /\ ~IsNaN(value) /\ value > 0 /\ value <= MaxTopupLimit
            /\ value > settings.minTopupAmount

\* POST /api/settings/update: a valid value is written to .env and to the
\* settings in memory (the KHQR controller is told to reload)
updateSetting(key, value) ==
    /\ validateSetting(key, value)
    /\ settings' = [settings EXCEPT ![SettingOf(key)] = value]
    /\ UNCHANGED <<reply, clock, shop, transactions, panel, cleanupInterval, paymentCheckers, activeIntervals,
                   processedMd5, calls, loops, ticks, timers, timerQueue, paid, qr,
                   balance, ledger, txn, upd, faults, rejects, history>>

\* ------------------------------------------------------ User.updateBalance
UpdOps == {"add", "subtract"}

\* a caller (processPurchase, the admin panel) calls updateBalance: BEGIN is issued
updateBalance(o, amt, op) ==
    /\ CanRequest /\ CanStart
    /\ upd' = Append(upd, [owner |-> o, amount |-> amt, op |-> op,
                           pc |-> "begin", new |-> 0])
    /\ UNCHANGED <<reply, clock, shop, transactions, panel, settings, cleanupInterval, paymentCheckers, activeIntervals, processedMd5, calls,
                   loops, ticks, timers, timerQueue, paid, qr, balance, ledger, txn, faults,
                   rejects, history>>

\* BEGIN TRANSACTION returned: SQLite refuses to nest transactions
BeginReturn(i) ==
    /\ i \in DOMAIN upd /\ upd[i].pc = "begin"
    /\ IF txn.active
       THEN /\ upd' = [upd EXCEPT ![i].pc = "rollback"]
            /\ UNCHANGED txn
       ELSE /\ txn' = [active |-> TRUE, balance |-> balance, ledger |-> ledger]
            /\ upd' = [upd EXCEPT ![i].pc = "select"]
    /\ UNCHANGED <<reply, clock, shop, transactions, panel, settings, cleanupInterval, paymentCheckers, activeIntervals, processedMd5, calls,
                   loops, ticks, timers, timerQueue, paid, qr, balance, ledger, faults,
                   rejects, history>>

\* lines 102-112: the new balance from the balance read
NewBalance(read, amt, op) ==
    IF op = "add" THEN read + amt
    ELSE IF op = "subtract" THEN read - amt
    ELSE amt

\* SELECT balance returned (lines 93-117): user not found and insufficient
\* balance throw; else the UPDATE is issued with the new balance
SelectReturn(i) ==
    /\ i \in DOMAIN upd /\ upd[i].pc = "select"
    /\ upd' = [upd EXCEPT ![i] =
           IF upd[i].owner \notin DOMAIN balance
           THEN [upd[i] EXCEPT !.pc = "rollback"]
           ELSE IF upd[i].op = "subtract"
                   /\ NewBalance(balance[upd[i].owner], upd[i].amount, upd[i].op) < 0
           THEN [upd[i] EXCEPT !.pc = "rollback"]
           ELSE [upd[i] EXCEPT
                   !.pc = "update",
                   !.new = NewBalance(balance[upd[i].owner], upd[i].amount, upd[i].op)]]
    /\ UNCHANGED <<reply, clock, shop, transactions, panel, settings, cleanupInterval, paymentCheckers, activeIntervals, processedMd5, calls,
                   loops, ticks, timers, timerQueue, paid, qr, balance, ledger, txn, faults,
                   rejects, history>>

\* UPDATE users SET balance = ? returned; COMMIT is issued
WriteReturn(i) ==
    /\ i \in DOMAIN upd /\ upd[i].pc = "update"
    /\ balance' = [balance EXCEPT ![upd[i].owner] = upd[i].new]
    /\ upd' = [upd EXCEPT ![i].pc = "commit"]
    /\ UNCHANGED <<reply, clock, shop, transactions, panel, settings, cleanupInterval, paymentCheckers, activeIntervals, processedMd5, calls,
                   loops, ticks, timers, timerQueue, paid, qr, ledger, txn, faults, rejects,
                   history>>

\* COMMIT returned: updateBalance returns newBalance; COMMIT with no open
\* transaction is an error and goes to the catch
CommitReturn(i) ==
    /\ i \in DOMAIN upd /\ upd[i].pc = "commit"
    /\ IF txn.active
       THEN txn' = NoTxn /\ upd' = [upd EXCEPT ![i].pc = "done"]
       ELSE UNCHANGED txn /\ upd' = [upd EXCEPT ![i].pc = "rollback"]
    /\ UNCHANGED <<reply, clock, shop, transactions, panel, settings, cleanupInterval, paymentCheckers, activeIntervals, processedMd5, calls,
                   loops, ticks, timers, timerQueue, paid, qr, balance, ledger, faults,
                   rejects, history>>

\* ROLLBACK returned (lines 121-125): the open transaction of the connection,
\* whoever began it, is undone; updateBalance throws
RollbackReturn(i) ==
    /\ i \in DOMAIN upd /\ upd[i].pc = "rollback"
    /\ IF txn.active
       THEN balance' = txn.balance /\ ledger' = txn.ledger /\ txn' = NoTxn
       ELSE UNCHANGED <<balance, ledger, txn>>
    /\ upd' = [upd EXCEPT ![i].pc = "failed"]
    /\ UNCHANGED <<reply, clock, shop, transactions, panel, settings, cleanupInterval, paymentCheckers, activeIntervals, processedMd5, calls,
                   loops, ticks, timers, timerQueue, paid, qr, faults, rejects, history>>

\* ------------------------------------------------------------ the system
Next ==
    \/ \E o \in Owners, a \in Amounts : generateQR(o, a)
    \/ \E h \in Hashes, ok \in BOOLEAN : GatewayReturn(h, ok)
    \/ \E h \in Hashes, ok \in BOOLEAN : PhotoReturn(h, ok)
    \/ \E h \in Hashes, ok \in BOOLEAN : PersistReturn(h, ok)
    \/ \E h \in Hashes : IntervalFire(h)
    \/ \E h \in Hashes : Pay(h)
    \/ \E h \in Hashes, res \in {"paid", "unpaid", "error"} : CheckReturn(h, res)
    \/ \E h \in Hashes, ok \in BOOLEAN : MessageReturn(h, ok)
    \/ \E h \in Hashes, ok \in BOOLEAN : CreditReturn(h, ok)
    \/ \E h \in Hashes, ok \in BOOLEAN : LedgerReturn(h, ok)
    \/ \E h \in Hashes, ok \in BOOLEAN : InsertReturn(h, ok)
    \/ \E h \in Hashes, cap \in Hashes, ok \in BOOLEAN : DeleteReturn(h, cap, ok)
    \/ \E h \in Hashes, ok \in BOOLEAN : ExpireReturn(h, ok)
    \/ \E h \in Hashes : TimeoutFire(h)
    \/ \E h \in Hashes, ok \in BOOLEAN : TimeoutDeleteReturn(h, ok)
    \/ \E h \in Hashes, ok \in BOOLEAN : TimeoutNotifyReturn(h, ok)
    \/ \E o \in Owners : cleanupExpiredTransactions(o)
    \/ stop
    \/ \E h \in Hashes : gracefulShutdown(h)
    \/ \E o \in Owners, amt \in Prices, op \in UpdOps : updateBalance(o, amt, op)
    \/ \E i \in 1..MaxEvents : BeginReturn(i)
    \/ \E i \in 1..MaxEvents : SelectReturn(i)
    \/ \E i \in 1..MaxEvents : WriteReturn(i)
    \/ \E i \in 1..MaxEvents : CommitReturn(i)
    \/ \E i \in 1..MaxEvents : RollbackReturn(i)

Spec == Init /\ [][Next]_vars

\* The payment engine alone, for top-ups of the minimum by owner 1, with
\* the scheduling of Node.js: a timer that is due runs its callback and every
\* awaited call returns (axios has a timeout of ten seconds), so while
\* something can run, something runs.
LoopNext ==
    \/ generateQR(1, settings.minTopupAmount)
    \/ \E h \in Hashes, ok \in BOOLEAN : GatewayReturn(h, ok)
    \/ \E h \in Hashes, ok \in BOOLEAN : PhotoReturn(h, ok)
    \/ \E h \in Hashes, ok \in BOOLEAN : PersistReturn(h, ok)
    \/ \E h \in Hashes : IntervalFire(h)
    \/ \E h \in Hashes : Pay(h)
    \/ \E h \in Hashes, res \in {"paid", "unpaid", "error"} : CheckReturn(h, res)
    \/ \E h \in Hashes, ok \in BOOLEAN : MessageReturn(h, ok)
    \/ \E h \in Hashes, ok \in BOOLEAN : CreditReturn(h, ok)
    \/ \E h \in Hashes, ok \in BOOLEAN : LedgerReturn(h, ok)
    \/ \E h \in Hashes, ok \in BOOLEAN : InsertReturn(h, ok)
    \/ \E h \in Hashes, cap \in Hashes, ok \in BOOLEAN : DeleteReturn(h, cap, ok)
    \/ \E h \in Hashes, ok \in BOOLEAN : ExpireReturn(h, ok)
    \/ \E h \in Hashes : TimeoutFire(h)
    \/ \E h \in Hashes, ok \in BOOLEAN : TimeoutDeleteReturn(h, ok)
    \/ \E h \in Hashes, ok \in BOOLEAN : TimeoutNotifyReturn(h, ok)
    \/ \E o \in Owners : cleanupExpiredTransactions(o)
    \/ stop

LoopSpec == Init /\ [][LoopNext]_vars /\ WF_vars(LoopNext)

\* ----------------------------------------------------- checkPaymentStatus
\* What axios.get may come back with: no response (timeout, connection
\* refused), or a response with a status and, in its body, a responseCode of
\* some JavaScript type (or none, or no body)
Statuses == {200, 201, 202, 204, 301, 400, 401, 404, 500, 503}
ResponseCodes ==
    {[type |-> "number", val |-> v] : v \in {0, 1, -1, 2}}
        \cup {[type |-> "string", val |-> 0], [type |-> "undefined", val |-> 0],
              [type |-> "null", val |-> 0]}
Responses ==
    {[outcome |-> o] : o \in {"timeout", "refused"}}
        \cup {[outcome |-> "response", status |-> st, responseCode |-> rc] :
                 st \in Statuses, rc \in ResponseCodes}

\* axios resolves for a 2xx status and rejects otherwise (validateStatus)
AxiosResolves(resp) ==
    resp.outcome = "response" /\ resp.status >= 200 /\ resp.status < 300
\* payload.responseCode === 0
StrictlyZero(rc) == rc.type = "number" /\ rc.val = 0
\* (every 2xx status taken for an answer)
StatusAny2xx(st) == TRUE
\* response.status === 200 || response.status === 201
StatusAccepted(st) == st = 200 \/ st = 201

\* lines 142-175
checkPaymentStatus(md5, resp) ==
    IF ~AxiosResolves(resp)
    THEN [success |-> FALSE, error |-> "Failed to check payment status"]
    ELSE IF StatusAccepted(resp.status)
         THEN [success |-> TRUE, paid |-> StrictlyZero(resp.responseCode),
               responseCode |-> resp.responseCode]
         ELSE [success |-> FALSE, error |-> "Invalid response from payment service"]

\* what the interval callback makes of the result (lines 315, 381)
CheckOutcome(result) ==
    IF result.success /\ result.paid THEN "paid"
    ELSE IF result.success THEN "unpaid" ELSE "error"

\* a status check of md5 that the gateway answers with resp
StatusCheck(md5, resp) ==
    /\ reply' = [md5 |-> md5, response |-> resp,
                 result |-> checkPaymentStatus(md5, resp)]
    /\ UNCHANGED <<clock, shop, transactions, panel, settings, cleanupInterval, paymentCheckers,
                   activeIntervals, processedMd5, calls, loops, ticks, timers,
                   timerQueue, paid, qr, balance, ledger, txn, upd, faults, rejects,
                   history>>

StatusNext == \E md5 \in Hashes, resp \in Responses : StatusCheck(md5, resp)

StatusSpec == Init /\ [][StatusNext]_vars

\* ------------------------------------------------ the engine against time
\* One unpaid top-up, with the delays of the source in milliseconds.  Status
\* checks answer within the tick that issued them.
checkIntervalMs == 1000       \* setInterval(..., 1000)
ClockMaxChecks == 600            \* const maxChecks = 600
deleteQRDelayReadme == 180000 \* (the three minutes of the README)
deleteQRDelay == 600000       \* setTimeout(..., 600000)
ClockHorizon == 700000        \* time stops here
MaxIssueAt == 2000            \* the top-up is issued no later than this

OthersUnchanged ==
    UNCHANGED <<reply, shop, transactions, panel, settings, cleanupInterval, paymentCheckers, activeIntervals,
                processedMd5, calls, loops, ticks, timers, timerQueue, paid, qr,
                balance, ledger, txn, upd, faults, rejects, history>>

\* a callback of the top-up is due now
PollDue == clock.loop = "live" /\ clock.nextTick <= clock.now
TimeoutDue == clock.timer = "armed" /\ clock.due <= clock.now

\* generateQR returns: request stored with its timestamp, row pending,
\* setInterval and setTimeout armed (lines 245-274)
ClockIssue ==
    /\ clock.issuedAt = -1 /\ clock.now <= MaxIssueAt
    /\ clock' = [clock EXCEPT !.issuedAt = clock.now, !.request = "held",
                              !.row = "pending", !.loop = "live",
                              !.nextTick = clock.now + checkIntervalMs,
                              !.timer = "armed",
                              !.due = clock.now + deleteQRDelay]
    /\ OthersUnchanged

\* the interval callback (lines 296-393), the payment staying unpaid
ClockPoll ==
    /\ PollDue
    /\ clock' =
          IF clock.request # "held"
          THEN [clock EXCEPT !.loop = "cleared"]
          ELSE [clock EXCEPT
                  !.lastCheck = clock.now,
                  !.checkCount = @ + 1,
                  !.nextTick = @ + checkIntervalMs,
                  !.loop = IF clock.checkCount + 1 >= ClockMaxChecks
                           THEN "cleared" ELSE @,
                  !.row = IF clock.checkCount + 1 >= ClockMaxChecks
                          THEN "expired" ELSE @]
    /\ OthersUnchanged

\* the timeout callback (lines 410-422)
ClockTimeout ==
    /\ TimeoutDue
    /\ clock' = [clock EXCEPT !.timer = "fired",
                              !.request = IF @ = "held" THEN "deleted" ELSE @]
    /\ OthersUnchanged

\* time passes when no callback is due
ClockElapse ==
    /\ ~PollDue /\ ~TimeoutDue
    /\ clock.now < ClockHorizon
    /\ clock' = [clock EXCEPT !.now = @ + checkIntervalMs]
    /\ OthersUnchanged

ClockNext == ClockIssue \/ ClockPoll \/ ClockTimeout \/ ClockElapse

ClockSpec == Init /\ [][ClockNext]_vars

\* Top-ups of the minimum by both owners, with one event more than
\* MaxEvents: two requests and a failure of the gateway or of a message of
\* the expiry timer
WideExtra == 1
WideInit == Start(WideExtra)
WideNext ==
    \/ \E o \in Owners :
            generateQR(o, settings.minTopupAmount) /\ Len(calls') <= MaxEvents
    \/ \E h \in Hashes, ok \in BOOLEAN : GatewayReturn(h, ok)
    \/ \E h \in Hashes : PhotoReturn(h, TRUE)
    \/ \E h \in Hashes : PersistReturn(h, TRUE)
    \/ \E h \in Hashes : IntervalFire(h)
    \/ \E h \in Hashes : Pay(h)
    \/ \E h \in Hashes, res \in {"paid", "unpaid", "error"} : CheckReturn(h, res)
    \/ \E h \in Hashes : MessageReturn(h, TRUE)
    \/ \E h \in Hashes : CreditReturn(h, TRUE)
    \/ \E h \in Hashes : LedgerReturn(h, TRUE)
    \/ \E h \in Hashes : InsertReturn(h, TRUE)
    \/ \E h \in Hashes, cap \in Hashes : DeleteReturn(h, cap, TRUE)
    \/ \E h \in Hashes : ExpireReturn(h, TRUE)
    \/ \E h \in Hashes : TimeoutFire(h)
    \/ \E h \in Hashes, ok \in BOOLEAN : TimeoutDeleteReturn(h, ok)
    \/ \E h \in Hashes, ok \in BOOLEAN : TimeoutNotifyReturn(h, ok)
    \/ \E h \in Hashes : gracefulShutdown(h)

WideSpec == WideInit /\ [][WideNext]_vars

\* ------------------------------------------------- the transactions table
\* The statements the engine runs on the table, with the md5 as the gateway
\* answered it (response.data.md5, taken as it comes) and the user_id.
Md5s == {1, 2}        \* the md5 values the gateway may answer with
MaxRows == 3          \* rows written by Transaction.create
EngineVars ==
    <<panel, settings, cleanupInterval, paymentCheckers, activeIntervals, processedMd5,
      calls, loops, ticks, timers, timerQueue, paid, qr, balance, ledger, txn, upd,
      faults, rejects, history>>

Row(o, md5, status) == [user_id |-> o, md5_hash |-> md5, status |-> status]
\* INSERT INTO transactions: FOREIGN KEY (user_id) REFERENCES users (telegram_id);
\* md5_hash TEXT carries no constraint
InsertRow(rows, row) == IF ForeignKeyOk(row.user_id) THEN Append(rows, row) ELSE rows
\* WHERE md5_hash = ? AND user_id = ?
Matches(row, o, md5) == row.md5_hash = md5 /\ row.user_id = o
Changes(rows, o, md5) == {i \in DOMAIN rows : Matches(rows[i], o, md5)}

\* generateQR, lines 254-274: the pending row is written with the md5 of the
\* gateway's answer (a failure is logged only) and the poll loop is started
TablePersist(o, md5) ==
    /\ Len(transactions.rows) < MaxRows
    /\ transactions' = [transactions EXCEPT
           !.rows = InsertRow(@, Row(o, md5, "pending")),
           !.requests = @ \cup {<<o, md5>>}]
    /\ UNCHANGED <<reply, clock, shop, EngineVars>>

\* the settlement, lines 315-356: the processed guard, then UPDATE ... SET
\* status = "completed"; with no row changed an INSERT is issued
TableSettle(o, md5) ==
    /\ <<o, md5>> \in transactions.requests
    /\ md5 \notin transactions.processedMd5
    /\ transactions' = [transactions EXCEPT
           !.processedMd5 = @ \cup {md5},
           !.rows = [i \in DOMAIN @ |->
                       IF Matches(@[i], o, md5)
                       THEN [@[i] EXCEPT !.status = "completed"] ELSE @[i]],
           !.inserting = IF Changes(transactions.rows, o, md5) = {}
                         THEN @ \cup {<<o, md5>>} ELSE @]
    /\ UNCHANGED <<reply, clock, shop, EngineVars>>

\* lines 357-360: the INSERT of the completed row
TableInsert(o, md5) ==
    /\ <<o, md5>> \in transactions.inserting
    /\ transactions' = [transactions EXCEPT
           !.rows = InsertRow(@, Row(o, md5, "completed")),
           !.inserting = @ \ {<<o, md5>>}]
    /\ UNCHANGED <<reply, clock, shop, EngineVars>>

\* line 389: UPDATE ... SET status = "expired" WHERE ... AND status = "pending"
TableExpire(o, md5) ==
    /\ <<o, md5>> \in transactions.requests
    /\ \E i \in Changes(transactions.rows, o, md5) : transactions.rows[i].status = "pending"
    /\ transactions' = [transactions EXCEPT
           !.rows = [i \in DOMAIN @ |->
                       IF Matches(@[i], o, md5) /\ @[i].status = "pending"
                       THEN [@[i] EXCEPT !.status = "expired"] ELSE @[i]]]
    /\ UNCHANGED <<reply, clock, shop, EngineVars>>

\* processPurchase: the purchase row, whose md5_hash is NULL (0)
TablePurchase(o) ==
    /\ Len(transactions.rows) < MaxRows
    /\ ForeignKeyOk(o)
    /\ transactions' = [transactions EXCEPT
           !.rows = InsertRow(@, Row(o, 0, "completed"))]
    /\ UNCHANGED <<reply, clock, shop, EngineVars>>

TableNext ==
    \/ \E o \in Owners, md5 \in Md5s : TablePersist(o, md5)
    \/ \E o \in Owners, md5 \in Md5s : TableSettle(o, md5)
    \/ \E o \in Owners, md5 \in Md5s : TableInsert(o, md5)
    \/ \E o \in Owners, md5 \in Md5s : TableExpire(o, md5)
    \/ \E o \in Owners : TablePurchase(o)

TableSpec == Init /\ [][TableNext]_vars

\* ------------------------------------------------- buying the one account
\* handleConfirmBuyCallback and processPurchase for one account, a step per
\* await.  deleteMessage and the second Account.getById change nothing and go
\* with the step before them; User.updateBalance is taken as one step here.
ShopOthers == UNCHANGED <<reply, clock, transactions, EngineVars>>
Flow(b, pc) == [buyer |-> b, pc |-> pc]
At(i, pc) == i \in DOMAIN shop.flows /\ shop.flows[i].pc = pc
Goto(i, pc) == [shop.flows EXCEPT ![i].pc = pc]

\* a buyer presses the confirm button: Account.getById is issued
handleConfirmBuyCallback(b) ==
    /\ Len(shop.flows) < MaxFlows
    /\ shop' = [shop EXCEPT !.flows = Append(@, Flow(b, "getAccount"))]
    /\ ShopOthers

\* Account.getById returned: !account.is_available ends the flow
AccountReturn(i) ==
    /\ At(i, "getAccount")
    /\ shop' = [shop EXCEPT
           !.flows = Goto(i, IF shop.available THEN "getUser" ELSE "unavailable")]
    /\ ShopOthers

\* User.getByTelegramId returned: user.balance < account.price ends the flow;
\* else the confirmation is deleted and processPurchase begins
UserReturn(i) ==
    /\ At(i, "getUser")
    /\ shop' = [shop EXCEPT
           !.flows = Goto(i, IF shop.balance[shop.flows[i].buyer] < AccountPrice
                             THEN "insufficient" ELSE "create")]
    /\ ShopOthers

\* Purchase.create returned: a purchases row for the buyer and the account
PurchaseCreateReturn(i) ==
    /\ At(i, "create")
    /\ shop' = [shop EXCEPT
           !.purchases = Append(@, shop.flows[i].buyer),
           !.flows = Goto(i, "debit")]
    /\ ShopOthers

\* User.updateBalance(userId, account.price, 'subtract') returned, or threw
\* 'Insufficient balance' to the catch of the callback
DebitReturn(i) ==
    /\ At(i, "debit")
    /\ LET b == shop.flows[i].buyer
       IN  IF shop.balance[b] - AccountPrice < 0
           THEN shop' = [shop EXCEPT !.flows = Goto(i, "failed")]
           ELSE shop' = [shop EXCEPT
                   !.balance[b] = @ - AccountPrice,
                   !.debited = Append(@, b),
                   !.flows = Goto(i, "markSold")]
    /\ ShopOthers

\* Account.markAsSold returned: UPDATE accounts SET is_available = 0
MarkAsSoldReturn(i) ==
    /\ At(i, "markSold")
    /\ shop' = [shop EXCEPT !.available = FALSE, !.flows = Goto(i, "deliver")]
    /\ ShopOthers

\* the purchase row of the ledger is written and the account details and
\* the code file are sent to the buyer; the purchase is marked delivered
DeliverReturn(i) ==
    /\ At(i, "deliver")
    /\ shop' = [shop EXCEPT
           !.delivered = Append(@, shop.flows[i].buyer),
           !.flows = Goto(i, "done")]
    /\ ShopOthers

ShopNext ==
    \/ \E b \in Buyers : handleConfirmBuyCallback(b)
    \/ \E i \in 1..MaxFlows : AccountReturn(i)
    \/ \E i \in 1..MaxFlows : UserReturn(i)
    \/ \E i \in 1..MaxFlows : PurchaseCreateReturn(i)
    \/ \E i \in 1..MaxFlows : DebitReturn(i)
    \/ \E i \in 1..MaxFlows : MarkAsSoldReturn(i)
    \/ \E i \in 1..MaxFlows : DeliverReturn(i)

ShopSpec == Init /\ [][ShopNext]_vars

\* ------------------------------------------------ the limits in the panel
\* POST /api/settings/update as the admin sees it, from any .env whose
\* limits are numbers with the minimum below the maximum (the file is read
\* as it is at startup, nothing validates it)
LimitValues == {NaN, 0, 1, 2, 3, MaxTopupLimit, MaxTopupLimit + 1}
InitialLimits ==
    {l \in {1, 2, 3} \X {3, MaxTopupLimit, MaxTopupLimit + 1} : l[1] < l[2]}
LimitsInit ==
    \E l \in InitialLimits :
        StartWith([Init_settings EXCEPT !.minTopupAmount = l[1],
                                       !.maxTopupAmount = l[2]], 0)

\* the route: validateSetting, then updateSetting, which writes .env and the
\* settings in memory (written: the file could be read and written)
SettingsUpdate(key, value, written) ==
    /\ panel' = [key |-> key, value |-> value,
                 success |-> validateSetting(key, value) /\ written,
                 before |-> settings]
    /\ settings' = IF validateSetting(key, value) /\ written
                   THEN [settings EXCEPT ![SettingOf(key)] = value]
                   ELSE settings
    /\ UNCHANGED <<reply, clock, shop, transactions, cleanupInterval, paymentCheckers,
                   activeIntervals, processedMd5, calls, loops, ticks, timers,
                   timerQueue, paid, qr, balance, ledger, txn, upd, faults, rejects,
                   history>>

LimitsNext ==
    \/ \E key \in {"minTopup", "maxTopup"}, value \in LimitValues, written \in BOOLEAN :
            SettingsUpdate(key, value, written)
    \/ \E key \in {"bakongId", "merchantName", "bearerToken"}, value \in SettingTexts :
            SettingsUpdate(key, value, TRUE)

LimitsSpec == LimitsInit /\ [][LimitsNext]_vars

\* The admin panel changing settings while top-ups are requested; at most
\* MaxSettingsChanged settings differ from their values at startup
MaxSettingsChanged == 2
SettingsChanged ==
    Cardinality({key \in SettingKeys :
                    settings[SettingOf(key)] # Init_settings[SettingOf(key)]})
SettingsNext ==
    \/ \E key \in {"minTopup", "maxTopup"}, value \in SettingAmounts :
            updateSetting(key, value) /\ SettingsChanged' <= MaxSettingsChanged
    \/ \E key \in {"bakongId", "merchantName", "bearerToken"}, value \in SettingTexts :
            updateSetting(key, value) /\ SettingsChanged' <= MaxSettingsChanged
    \/ \E a \in Amounts : generateQR(1, a)
    \/ \E h \in Hashes, ok \in BOOLEAN : GatewayReturn(h, ok)

SettingsSpec == Init /\ [][SettingsNext]_vars

\* ================================================================ claims
Completed(h) == {i \in DOMAIN ledger[h] : ledger[h][i] = "completed"}
ExpiredRows(h) == {i \in DOMAIN ledger[h] : ledger[h][i] = "expired"}
Registered(o) == o \in DOMAIN balance
Settling(h) == {t \in BagToSet(ticks[h]) : t.pc \in {"msg", "credit", "ledger", "insert"}}

\* C1: for every md5, whatever the interleaving of poll ticks (overlapping
\* ticks whose status checks all return paid included), the processed guard
\* is acquired at most once, the balance is credited at most once and at most
\* one completed ledger row exists for the md5; once the settlement of a
\* registered owner has run to its end with no collaborator failure and no
\* other balance writer, the credit happened exactly once and exactly one
\* completed row exists.
C1_SettleAtMostOnce ==
    \A h \in Hashes :
        /\ history.settles[h] <= 1
        /\ history.credits[h] <= 1
        /\ Cardinality(Completed(h)) <= 1
        /\ history.settles[h] = IF h \in processedMd5 THEN 1 ELSE 0
        /\ (/\ h \in processedMd5 /\ Settling(h) = {}
            /\ NFaults = 0 /\ upd = <<>> /\ Registered(Owner(h)))
           => history.credits[h] = 1 /\ Cardinality(Completed(h)) = 1

\* C1 witness: the md5 is settled and credited while another status check of
\* the same loop, issued before the settlement, is still in flight and the
\* gateway reports the payment as paid
C1_Witness ==
    \E h \in Hashes :
        /\ h \in processedMd5 /\ h \in paid
        /\ history.credits[h] = 1
        /\ Cardinality(Completed(h)) = 1
        /\ BagIn(Tick("check", 0), ticks[h])

\* the owner was told the QR of md5 h expired, by a timeout that deleted it
ToldExpired(h) ==
    \E t \in Hashes : timers[t].pc = "told" /\ timers[t].cap = h /\ qr[h] = "deleted"

\* C2: no md5 is both expired (its row marked expired, or its QR deleted and
\* the owner told it expired) and credited.
C2_SettleXorExpire ==
    \A h \in Hashes :
        ~(history.credits[h] > 0 /\ (ExpiredRows(h) # {} \/ ToldExpired(h)))

\* C3: the balance credit and the transition of the ledger row to completed
\* are one atomic step: a md5 has a completed row iff its amount was credited.
C3_CreditAndLedgerAtomic ==
    \A h \in Hashes : (Completed(h) # {}) <=> (history.credits[h] > 0)


\* C4: a failing notification never blocks the settlement: once the md5 is
\* in the processed set and the callback that put it there has run to its
\* end, the owner's balance is credited and the row is completed (the owner
\* has a users row, no SQLite statement failed, no updateBalance interfered).
C4_NotificationNeverBlocks ==
    \A h \in Hashes :
        (/\ h \in processedMd5
         /\ Settling(h) = {}
         /\ Registered(Owner(h))
         /\ faults.db = 0 /\ upd = <<>>)
        => (history.credits[h] = 1 /\ Completed(h) # {})

\* C5: a ledger row that is expired is never rewritten to completed, and a
\* completed row is never rewritten to expired.
C5_TerminalRowsStay ==
    [][\A h \in Hashes : \A i \in DOMAIN ledger[h] :
          i \in DOMAIN ledger'[h] =>
              /\ ~(ledger[h][i] = "expired" /\ ledger'[h][i] = "completed")
              /\ ~(ledger[h][i] = "completed" /\ ledger'[h][i] = "expired")]_vars

\* C6: at most one poll loop is live per owner.
LiveLoops(o) == {h \in DOMAIN calls : Owner(h) = o /\ loops[h].st = "live"}
C6_OneLiveLoopPerOwner == \A o \in Owners : Cardinality(LiveLoops(o)) <= 1

\* C7: the expiry timer armed for the request of md5 h acts on that request
\* only: the request it deletes the QR of, discards and reports as expired
\* is the one it was armed for.
C7_TimerActsOnOwnRequest ==
    \A h \in Hashes :
        timers[h].pc \in {"delMsg", "notify", "told", "unhandled"} => timers[h].cap = h

\* C8: no balance update is lost when settlement credits interleave with one
\* updateBalance call (a purchase debit, an admin change) on the same owner:
\* once the call has returned, the owner's balance is the initial one plus
\* the credits of the owner's settlements plus the change of the call if it
\* succeeded.
RECURSIVE SumCredits(_, _)
SumCredits(o, S) ==
    IF S = {} THEN 0
    ELSE LET h == CHOOSE x \in S : TRUE
         IN (IF Owner(h) = o THEN history.credits[h] * Amount(h) ELSE 0)
            + SumCredits(o, S \ {h})
RECURSIVE SumUpdates(_, _)
SumUpdates(o, S) ==
    IF S = {} THEN 0
    ELSE LET i == CHOOSE x \in S : TRUE
         IN (IF upd[i].owner = o /\ upd[i].pc = "done"
             THEN (IF upd[i].op = "add" THEN upd[i].amount ELSE 0 - upd[i].amount)
             ELSE 0)
            + SumUpdates(o, S \ {i})
C8_NoLostUpdate ==
    (Len(upd) = 1 /\ upd[1].pc \in {"done", "failed"}) =>
        \A o \in DOMAIN balance :
            o = upd[1].owner =>
                balance[o] = InitUsers[o] + SumCredits(o, DOMAIN calls)
                             + SumUpdates(o, DOMAIN upd)

\* what the specification calls an invalid and a valid amount
ClaimInvalid(a) ==
    \/ a = NaN
    \/ a <= 0
    \/ a < settings.minTopupAmount
    \/ a > settings.maxTopupAmount
ClaimValid(a) ==
    a # NaN /\ settings.minTopupAmount <= a /\ a <= settings.maxTopupAmount

\* C9: generateQR with an amount that is non-numeric, not positive, below the
\* minimum or above the maximum sends a rejection and changes nothing else:
\* no call reaches the gateway, no ledger row, request, loop or timer appears,
\* and a pending request of the owner stays as it is.
C9_RejectionHasNoSideEffect ==
    [][\A o \in Owners, a \in Amounts :
          (/\ ClaimInvalid(a)
           /\ rejects' # rejects \/ calls' # calls   \* every generateQR step
           /\ generateQR(o, a)) =>
              /\ Len(rejects') = Len(rejects) + 1
              /\ UNCHANGED <<reply, clock, shop, transactions, panel, settings, cleanupInterval, paymentCheckers, activeIntervals,
                             processedMd5, calls, loops, ticks, timers,
                             timerQueue, paid, qr, balance, ledger, txn, upd,
                             faults, history>>]_vars

\* C9 witness: an amount above the maximum was rejected while a request of
\* the same owner was pending, and that request is still there, polled
C9_Witness ==
    \E i \in DOMAIN rejects :
        /\ rejects[i].pending # 0
        /\ rejects[i].amount > settings.maxTopupAmount
        /\ paymentCheckers[rejects[i].owner] = rejects[i].pending
        /\ loops[rejects[i].pending].st = "live"

C11_GatewayFailurePersistsNothing ==
    [][/\ \A h \in Hashes :
            GatewayReturn(h, FALSE) =>
                /\ calls'[h].pc = "gatewayFailed"
                /\ UNCHANGED <<reply, clock, shop, transactions, panel, settings, cleanupInterval, paymentCheckers, activeIntervals,
                               processedMd5, loops, ticks, timers, timerQueue,
                               paid, qr, balance, ledger, txn, upd, rejects,
                               history>>
       /\ \A h \in DOMAIN calls' :
            calls'[h].pc = "gatewayFailed" =>
                /\ ledger'[h] = <<>> /\ qr'[h] = "none"
                /\ loops'[h].st = "none" /\ timers'[h].pc = "none"
                /\ paymentCheckers'[Owner(h)] # h /\ activeIntervals'[Owner(h)] # h
                /\ ticks'[h] = EmptyBag /\ h \notin processedMd5']_vars

\* C11 witness: createPayment failed for a top-up of a valid amount; the
\* call has ended and left no row, request, QR message, loop or timer
C11_Witness ==
    \E h \in DOMAIN calls :
        /\ calls[h].pc = "gatewayFailed" /\ faults.gw = 1
        /\ ClaimValid(Amount(h))
        /\ ledger[h] = <<>> /\ qr[h] = "none" /\ paymentCheckers[Owner(h)] = 0
        /\ loops[h].st = "none" /\ timers[h].pc = "none"

\* the calls of owner o other than h
OtherCalls(h) == {g \in DOMAIN calls : g # h /\ Owner(g) = Owner(h)}

\* C12: a pending payment that is never paid and not superseded, with every
\* collaborator working: once its expiry timer has fired and finished and
\* its poll loop has stopped, all its status checks but possibly the last
\* having completed unpaid, its row is expired, its request discarded and the
\* balance of its owner is what it was.
C12_UnpaidRequestExpires ==
    \A h \in DOMAIN calls :
        (/\ calls[h].pc = "done" /\ h \notin paid /\ OtherCalls(h) = {}
         /\ NFaults = 0 /\ upd = <<>> /\ Registered(Owner(h))
         /\ timers[h].pc \in {"told", "done"}
         /\ loops[h].st = "cleared" /\ ticks[h] = EmptyBag
         /\ loops[h].checkCount >= maxChecks - 1)
        => /\ ledger[h] = <<"expired">>
           /\ paymentCheckers[Owner(h)] = 0
           /\ balance[Owner(h)] = InitUsers[Owner(h)]

\* the callback that settles md5 h has run to its end
Settled(h) ==
    /\ h \in processedMd5 /\ Settling(h) = {}
    /\ \A t \in BagToSet(ticks[h]) : t.pc # "delMsg"

\* C13: with every collaborator working and no other writer of balances,
\* once a status check of md5 h has returned paid and the callback has run
\* to its end, the balance of the owner of h was credited with the amount
\* once, the row of h is completed, the loop of h has stopped and the request
\* of h is no longer stored; the other balances are what they were unless
\* their own payments were settled.
C13_PaidTickSettles ==
    \A h \in DOMAIN calls :
        (Settled(h) /\ NFaults = 0 /\ upd = <<>>)
        => /\ history.credits[h] = 1
           /\ ledger[h] = <<"completed">>
           /\ loops[h].st = "cleared"
           /\ paymentCheckers[Owner(h)] # h
           /\ \A o \in DOMAIN balance :
                 balance[o] = InitUsers[o] + SumCredits(o, DOMAIN calls)

\* C14: a top-up h2 of an owner whose earlier top-up h1 had returned and was
\* still pending when h2 was called: clearUserPaymentChecker in h2 stops the
\* loop of h1 and discards its request; when h2 returns, the loop of h2 is
\* the one live loop of the owner and is the one registered; and from the
\* moment h1 is superseded its row, while pending, is not settled by the
\* engine: a step leaves it pending or marks it expired.
C14_SupersedeLeavesOneLoop ==
    [][\A h2 \in DOMAIN calls :
          LET h1 == history.prev[h2]
              o == Owner(h2)
          IN h1 # 0 =>
              /\ (calls[h2].pc = "gateway" /\ calls'[h2].pc = "photo")
                    => /\ loops'[h1].st # "live"
                       /\ paymentCheckers'[o] = 0 /\ activeIntervals'[o] = 0
                       /\ ledger'[h1] = ledger[h1]
              /\ (calls[h2].pc = "persist" /\ calls'[h2].pc = "done")
                    => /\ {g \in DOMAIN calls' :
                             calls'[g].owner = o /\ loops'[g].st = "live"} = {h2}
                       /\ activeIntervals'[o] = h2
                       /\ paymentCheckers'[o] # h1
              /\ (calls[h2].pc # "gateway" /\ ledger[h1] = <<"pending">>)
                    => ledger'[h1] \in {<<"pending">>, <<"expired">>}]_vars

\* md5 h was cancelled: a later top-up of its owner, called after the
\* top-up of h had returned with h pending, has run clearUserPaymentChecker
Superseded(h) ==
    \E h2 \in DOMAIN calls :
        /\ history.prev[h2] = h
        /\ calls[h2].pc \in {"photo", "persist", "done", "photoFailed"}

\* C15: a cancelled payment is never settled, credited or expired afterwards.
C15_CancelledIsAbsorbing ==
    [][\A h \in Hashes :
          (Superseded(h) /\ h \notin processedMd5) =>
              /\ h \notin processedMd5'
              /\ history'.credits[h] = history.credits[h]
              /\ (ledger[h] = <<"pending">> => ledger'[h] = <<"pending">>)]_vars

\* C16: a status check that fails (transport error, non-2xx) is not taken
\* for a payment and not for a final no: the step settles nothing, credits
\* nothing, writes no row and keeps the request; it counts one check, and
\* unless that brings the count to the bound the loop stays live.
C16_FailedCheckIsSkipped ==
    [][\A h \in Hashes :
          CheckReturn(h, "error") =>
              /\ UNCHANGED <<processedMd5, balance, ledger, paymentCheckers,
                             history, qr, timers>>
              /\ loops'[h].checkCount = loops[h].checkCount + 1
              /\ (loops[h].st = "live" /\ loops[h].checkCount + 1 < maxChecks)
                    => (loops'[h].st = "live" /\ activeIntervals' = activeIntervals)
              /\ \A t \in BagToSet(ticks'[h]) :
                    t.pc = "expire" => loops'[h].checkCount >= maxChecks]_vars

\* C16 witness: the only failure so far was a status check of the only
\* top-up, and a later check of the same loop returned paid and settled it
C16_Witness ==
    \E h \in DOMAIN calls :
        /\ Len(calls) = 1 /\ calls[h].pc = "done" /\ faults.gw = 1
        /\ loops[h].checkCount = 1
        /\ h \in processedMd5 /\ history.credits[h] = 1
        /\ ledger[h] = <<"completed">>

\* C17: stop() leaves no poll loop live and no expiry timer armed, empties
\* the request map and the loop registry, and writes no row and no balance.
C17_StopCancelsEverything ==
    [][stop =>
          /\ \A h \in Hashes : loops'[h].st # "live" /\ timers'[h].pc # "armed"
          /\ \A o \in Owners : paymentCheckers'[o] = 0 /\ activeIntervals'[o] = 0
          /\ UNCHANGED <<ledger, balance>>]_vars

\* C18: no rejection raised inside a poll tick or inside the callback of the
\* expiry timer is left unhandled.
C18_NoUnhandledRejection ==
    \A h \in Hashes : timers[h].pc # "unhandled"

\* C19 as stated: a poll loop completes at most maxChecks status checks.
C19_Original ==
    \A h \in Hashes : loops[h].checkCount <= maxChecks

\* the status checks of loop h that are in flight
ChecksInFlight(h) == CopiesIn(Tick("check", 0), ticks[h])

\* C19 amended: a live loop has completed fewer than maxChecks checks
\* without a payment, and the checks completed exceed maxChecks only by
\* those that were in flight when the bound was reached; a loop is stopped
\* once its md5 is settled, and a tick that finds no request stored for the
\* owner stops it; a stopped loop issues no further check and is never
\* restarted; and every loop is stopped for good in the end.
C19_LoopTerminates ==
    /\ [](\A h \in Hashes :
            /\ loops[h].st = "live" => loops[h].checkCount < maxChecks
            /\ loops[h].checkCount + ChecksInFlight(h) < maxChecks + MaxInFlight
            /\ h \in processedMd5 => loops[h].st # "live")
    /\ [][\A h \in Hashes :
            /\ (IntervalFire(h) /\ paymentCheckers[Owner(h)] = 0)
                  => loops'[h].st = "cleared"
            /\ loops[h].st = "cleared"
                  => /\ loops'[h].st = "cleared"
                     /\ ChecksInFlight(h)' <= ChecksInFlight(h)]_vars
    /\ \A h \in Hashes : <>[](loops[h].st # "live")

\* C19 witness: a loop has stopped at the bound with a check still in
\* flight, which is one more than maxChecks
C19_Witness ==
    \E h \in DOMAIN calls :
        /\ loops[h].st = "cleared" /\ loops[h].checkCount = maxChecks
        /\ ChecksInFlight(h) = 1 /\ h \notin processedMd5

\* C20: whatever settings updateSetting has stored, the next generateQR
\* validates against the limits stored now (it accepts exactly the numeric
\* amounts from the minimum to the maximum) and asks the gateway with the
\* merchant parameters stored now.
C20_SettingsObservedByNextTopup ==
    [][\A o \in Owners, a \in Amounts :
          generateQR(o, a) =>
              /\ (Len(calls') = Len(calls) + 1)
                    <=> (/\ a # NaN
                         /\ settings.minTopupAmount <= a
                         /\ a <= settings.maxTopupAmount)
              /\ (Len(calls') = Len(calls) + 1)
                    => calls'[Len(calls')].request =
                          [bakongid |-> settings.khqrBakongId,
                           merchantname |-> settings.khqrMerchantName,
                           bearer |-> settings.khqrBearerToken]
              /\ (Len(calls') = Len(calls)) => Len(rejects') = Len(rejects) + 1]_vars

\* C20 witness: after the maximum was raised to 4 and the Bakong id changed
\* to 2, a top-up of 4, above the maximum the controller was constructed
\* with, went to the gateway under the new Bakong id
C20_Witness ==
    \E h \in DOMAIN calls :
        /\ settings.maxTopupAmount = 4 /\ settings.khqrBakongId = 2
        /\ calls[h].amount = 4 /\ calls[h].request.bakongid = 2

\* what the engine holds for owner o: the request, the registered loop, the
\* loops and timers of o's md5, the balance and the rows
IsOf(g, o) == g \in DOMAIN calls /\ calls[g].owner = o
OwnerState(o) ==
    [request |-> paymentCheckers[o],
     interval |-> activeIntervals[o],
     loops |-> [g \in Hashes |-> IF IsOf(g, o) THEN loops[g].st ELSE "none"],
     timers |-> [g \in Hashes |-> IF IsOf(g, o) THEN timers[g].pc ELSE "none"],
     balance |-> IF o \in DOMAIN balance THEN balance[o] ELSE 0,
     ledger |-> [g \in Hashes |-> IF IsOf(g, o) THEN ledger[g] ELSE <<>>]]
\* a step of the top-up of md5 h: of its generateQR call, of a tick of its
\* loop, of its settlement or expiry, of its timer
EngineStep(h) ==
    \/ \E ok \in BOOLEAN :
          \/ GatewayReturn(h, ok) \/ PhotoReturn(h, ok) \/ PersistReturn(h, ok)
          \/ MessageReturn(h, ok) \/ CreditReturn(h, ok) \/ LedgerReturn(h, ok)
          \/ InsertReturn(h, ok) \/ ExpireReturn(h, ok)
          \/ TimeoutDeleteReturn(h, ok) \/ TimeoutNotifyReturn(h, ok)
          \/ \E cap \in Hashes : DeleteReturn(h, cap, ok)
    \/ \E res \in {"paid", "unpaid", "error"} : CheckReturn(h, res)
    \/ IntervalFire(h) \/ TimeoutFire(h) \/ gracefulShutdown(h)

\* C21: a step of a top-up of owner A (its StartTopup, a poll tick, its
\* settlement, its expiry, the supersession it performs) leaves the request,
\* the loops, the timers, the balance and the rows of every other owner B as
\* they were.
C21_OwnersAreIndependent ==
    [][/\ \A o \in Owners, a \in Amounts :
            (/\ rejects' # rejects \/ calls' # calls
             /\ generateQR(o, a))
               => \A b \in Owners \ {o} : OwnerState(b)' = OwnerState(b)
       /\ \A h \in DOMAIN calls :
            EngineStep(h)
               => \A b \in Owners \ {Owner(h)} : OwnerState(b)' = OwnerState(b)]_vars

Answered == reply.response.outcome # "none"
Is2xx(resp) == resp.outcome = "response" /\ resp.status \in 200..299

\* C23 as stated: paid exactly for a 2xx answer whose responseCode is 0,
\* unpaid without an error for a 2xx answer with another code, an error
\* never reported as paid otherwise.
C23_Original ==
    Answered =>
        /\ (reply.result.success /\ reply.result.paid)
              <=> (Is2xx(reply.response) /\ StrictlyZero(reply.response.responseCode))
        /\ (Is2xx(reply.response) /\ ~StrictlyZero(reply.response.responseCode))
              => (reply.result.success /\ ~reply.result.paid)
        /\ ~Is2xx(reply.response) => ~reply.result.success

\* C23 amended: paid exactly for an answer of status 200 or 201 whose
\* responseCode is the number 0; unpaid without an error for status 200 or
\* 201 with anything else as responseCode; and an error result, which the
\* loop never takes for paid, for every other status, 2xx or not, and for a
\* transport failure.
C23_PaidOnlyFor200Or201CodeZero ==
    Answered =>
        LET r == reply.response
            ok == r.outcome = "response" /\ r.status \in {200, 201}
        IN /\ (reply.result.success /\ reply.result.paid)
                 <=> (ok /\ r.responseCode = [type |-> "number", val |-> 0])
           /\ (ok /\ r.responseCode # [type |-> "number", val |-> 0])
                 => (reply.result.success /\ ~reply.result.paid)
           /\ ~ok => (~reply.result.success /\ CheckOutcome(reply.result) = "error")
           /\ (CheckOutcome(reply.result) = "paid") => ok

\* C23 witness: the gateway answered 204 with responseCode 0 and the check
\* came back as an error
C23_Witness ==
    /\ Answered /\ reply.response.outcome = "response"
    /\ reply.response.status = 204
    /\ reply.response.responseCode = [type |-> "number", val |-> 0]
    /\ ~reply.result.success

\* C24: when the settlement of a md5 finds no row for it (Transaction.create
\* had failed in generateQR), its UPDATE changes nothing and it goes on to
\* INSERT a completed row for the md5, whose owner and amount are those of the
\* request; when a row exists the UPDATE completes it and nothing is
\* inserted; either way a settlement whose statements all succeeded leaves
\* exactly one row for the md5, and it is completed.
C24_SettleInsertsWhenNoRow ==
    [][\A h \in Hashes :
         /\ (/\ BagIn(Tick("ledger", 0), ticks[h])
             /\ ~BagIn(Tick("ledger", 0), ticks'[h])
             /\ faults' = faults)
            => IF ledger[h] = <<>>
               THEN BagIn(Tick("insert", 0), ticks'[h]) /\ ledger'[h] = <<>>
               ELSE /\ ~BagIn(Tick("insert", 0), ticks'[h])
                    /\ ledger'[h] = <<"completed">>
         /\ (/\ BagIn(Tick("insert", 0), ticks[h])
             /\ ~BagIn(Tick("insert", 0), ticks'[h])
             /\ faults' = faults /\ Registered(Owner(h)))
            => ledger[h] = <<>> /\ ledger'[h] = <<"completed">>
         /\ Cardinality(Completed(h)) <= 1]_vars

\* C24 witness: Transaction.create failed, the md5 was paid at the first
\* check and settled, and its one row is the completed row the settlement
\* inserted
C24_Witness ==
    \E h \in DOMAIN calls :
        /\ faults = [notif |-> 0, db |-> 1, gw |-> 0]
        /\ loops[h].checkCount = 0
        /\ Settled(h) /\ history.credits[h] = 1
        /\ ledger[h] = <<"completed">>

\* C25: no two rows of the transactions table carry the same non-null
\* md5_hash, whatever requests are persisted, settled and expired.
C25_PaymentHashUnique ==
    \A i, j \in DOMAIN transactions.rows :
        (i # j /\ transactions.rows[i].md5_hash # 0)
        => transactions.rows[i].md5_hash # transactions.rows[j].md5_hash

\* a step of the callback that settles md5 h: from the status check that
\* returns paid to the end of the callback
SettleStep(h) == ticks'[h] # ticks[h] /\ h \in processedMd5'

\* C26: the settlement of md5 h removes only what belongs to h: no step of
\* it deletes the QR message or the stored request of another top-up of the
\* owner, stops that top-up's loop or drops its handle from activeIntervals.
C26_SettleRemovesOnlyItsOwn ==
    [][\A h \in DOMAIN calls :
         SettleStep(h) =>
            \A g \in OtherCalls(h) :
               /\ qr'[g] = qr[g]
               /\ loops'[g] = loops[g]
               /\ paymentCheckers[Owner(h)] = g => paymentCheckers'[Owner(h)] = g
               /\ activeIntervals[Owner(h)] = g => activeIntervals'[Owner(h)] = g]_vars

\* C27: a generateQR call leaves the pending request of its owner, the poll
\* loop and the expiry timer of that request as they are when it is made and
\* when createPayment fails; the request is discarded and its loop stopped
\* by the call only in the step in which the gateway's answer was accepted.
C27_GatewayFailureKeepsOldRequest ==
    [][\A h \in DOMAIN calls' :
         /\ (\/ h \notin DOMAIN calls
             \/ calls[h].pc = "gateway" /\ calls'[h].pc = "gatewayFailed")
            => /\ paymentCheckers' = paymentCheckers
               /\ activeIntervals' = activeIntervals
               /\ loops' = loops /\ timers' = timers /\ timerQueue' = timerQueue
               /\ qr' = qr /\ ledger' = ledger /\ ticks' = ticks
         /\ (/\ h \in DOMAIN calls /\ calls'[h] # calls[h]
             /\ \/ paymentCheckers[Owner(h)] # 0 /\ paymentCheckers'[Owner(h)] = 0
                \/ activeIntervals[Owner(h)] # 0 /\ activeIntervals'[Owner(h)] = 0)
            => calls[h].pc = "gateway" /\ calls'[h].pc = "photo"]_vars

\* C27 witness: createPayment failed for a second top-up of an owner whose
\* first top-up is pending: its request is still stored, its loop live and
\* registered, its timer armed
C27_Witness ==
    \E h \in DOMAIN calls : \E g \in OtherCalls(h) :
        /\ calls[h].pc = "gatewayFailed"
        /\ history.prev[h] = g
        /\ paymentCheckers[Owner(h)] = g /\ activeIntervals[Owner(h)] = g
        /\ loops[g].st = "live" /\ timers[g].pc = "armed" /\ qr[g] = "shown"

\* C28: whatever the interleaving of the updateBalance calls on the shared
\* connection, a call that returned has applied its change and a call that
\* threw has left the stored balance as it was: with no top-up involved, once
\* all calls have ended every balance is the initial balance plus the changes
\* of the calls that returned; and no balance is ever negative.
C28_UpdateBalanceAllOrNothing ==
    /\ \A o \in DOMAIN balance : balance[o] >= 0
    /\ (calls = <<>> /\ \A i \in DOMAIN upd : upd[i].pc \in {"done", "failed"})
       => \A o \in DOMAIN balance :
             balance[o] = InitUsers[o] + SumUpdates(o, DOMAIN upd)

\* C29: the account is sold at most once: whatever the interleaving of the
\* confirmations, at most one purchases row is created for it, at most one
\* debit of its price is made and its details are sent to at most one buyer.
C29_AccountSoldAtMostOnce ==
    /\ Len(shop.purchases) <= 1
    /\ Len(shop.debited) <= 1
    /\ Len(shop.delivered) <= 1

\* the limits are within what validateSetting allows: 0.01 to 10000
InBounds(env) == env.minTopupAmount >= 2 /\ env.maxTopupAmount <= 2000000

\* C30 as stated: from settings with the minimum below the maximum, after
\* an accepted update the minimum is below the maximum, at least 0.01, and
\* the maximum at most 10000; a rejected update leaves the settings unchanged.
C30_Original ==
    /\ settings.minTopupAmount < settings.maxTopupAmount
    /\ panel.key # "none" =>
          IF panel.success THEN InBounds(settings) ELSE settings = panel.before

\* C30: from settings with the minimum below the maximum, the minimum stays
\* below the maximum; an accepted update stores the value under its key and
\* nothing else, an accepted minimum is at least 0.01 and an accepted maximum
\* at most 10000, and limits that were within 0.01..10000 before an accepted
\* update are within it after; a rejected update leaves the settings
\* unchanged.
C30_LimitsStayOrdered ==
    /\ settings.minTopupAmount < settings.maxTopupAmount
    /\ panel.key # "none" =>
          IF panel.success
          THEN /\ settings = [panel.before EXCEPT ![SettingOf(panel.key)] = panel.value]
               /\ panel.key = "minTopup" => settings.minTopupAmount >= 2
               /\ panel.key = "maxTopup" => settings.maxTopupAmount <= 2000000
               /\ InBounds(panel.before) => InBounds(settings)
          ELSE settings = panel.before

\* C30 witness: a maximum above 10000 came from the .env file and the panel
\* accepted a maximum of exactly 10000 in its place, the minimum of 0.01
\* staying below it
C30_Witness ==
    /\ panel.success /\ panel.key = "maxTopup"
    /\ panel.before.maxTopupAmount = 2000001
    /\ settings.maxTopupAmount = 2000000
    /\ settings.minTopupAmount = 2

====
